---- MODULE Spec2Model ----
(***************************************************************************)
(* Model of the anchor-escrow program (programs/anchor-escrow/src).        *)
(*                                                                         *)
(* The state is the part of the chain the three instructions read and      *)
(* write: the SPL token accounts (`tokens`) and the program-owned Escrow   *)
(* accounts (`escrows`), both keyed by address.  One action per            *)
(* instruction (make, take, refund); an instruction is one transaction,    *)
(* so a failure at any point leaves the ledger as it was.                  *)
(*                                                                         *)
(* Lamports (rent) are not modelled: accounts are either initialised or    *)
(* absent.                                                                 *)
(***************************************************************************)
EXTENDS Integers, FiniteSets, TLC

\* ---------------------------------------------------------------- bounds
\* Amounts: a wallet starts with MaxAmount of a mint, a Make deposits
\* 1..MaxAmount and asks for 0..MaxAmount.
MaxAmount == 1

\* Two signers, two mints, two seeds and two bump values stand for the
\* keys, the u64 seeds and the u8 bumps.
Wallets == {"w1", "w2"}
Mints == {"X", "Y"}
Seeds == {1, 2}
Bumps == {254, 255}

\* ------------------------------------------------------------- addresses
\* A key that can be a token authority: a wallet, or the escrow PDA.
Wallet(k) == [kind |-> "wallet", key |-> k, seed |-> 0, bump |-> 0]

\* EscrowPda with the seed left out of the seeds: one address per maker and
\* bump.
EscrowPda_SeedIgnored(k, s, b) == [kind |-> "escrow", key |-> k, seed |-> 1, bump |-> b]

\* create_program_address([b"escrow", maker, seed.to_le_bytes(), [bump]]):
\* injective in its seeds.
EscrowPda(k, s, b) == [kind |-> "escrow", key |-> k, seed |-> s, bump |-> b]

\* find_program_address: the `bump` Anchor fills in for `init` is the
\* canonical one, a fixed function of the other seeds.
CanonicalBump(k, s) == IF k = "w1" /\ s = 1 THEN 254 ELSE 255

EscrowAddrs == {EscrowPda(k, s, CanonicalBump(k, s)) : k \in Wallets, s \in Seeds}

NoEscrow == [kind |-> "none", key |-> "none", seed |-> 0, bump |-> 0]

\* Associated token account of (authority, mint).
Ata(auth, mint) == [kind |-> "ata", auth |-> auth, mint |-> mint, bump |-> 0]

\* create_program_address([b"vault", escrow.key(), [bump]]).
VaultPda(e, b) == [kind |-> "vault", auth |-> e, mint |-> "-", bump |-> b]

\* tokens   the initialised SPL token accounts, by address:
\*          [mint, owner, amount]
\* escrows  the initialised Escrow accounts, by address (state.rs)
\* last     the instruction run last and its result
\* closed   the address of the record closed most recently by a Take or a
\*          Refund (NoEscrow before the first)
\* supply0  per mint, the tokens in existence at the start
\* made     for each live record, the arguments of the Make that created it
VARIABLES tokens, escrows, last, closed, supply0, made

vars == <<tokens, escrows, last, closed, supply0, made>>

\* The ledger an instruction works on.
Ledger(t, e) == [tokens |-> t, escrows |-> e]

Exists(t, a) == a \in DOMAIN t
Amount(t, a) == IF Exists(t, a) THEN t[a].amount ELSE 0
Remove(f, a) == [x \in DOMAIN f \ {a} |-> f[x]]

\* ------------------------------------------------- SPL token program (CPI)
\* The token program's `transfer`: the source must hold the amount, both
\* accounts must be of one mint, and the source's owner must have signed
\* (a wallet signing the transaction, or a PDA signed for with its seeds).
\* A transfer to the source itself, or of zero, moves nothing.
TokTransfer(t, from, to, authority, signers, amount) ==
    IF ~Exists(t, from) \/ ~Exists(t, to)
      THEN [err |-> "AccountNotInitialized", tokens |-> t]
    ELSE IF t[from].amount < amount
      THEN [err |-> "InsufficientFunds", tokens |-> t]
    ELSE IF t[from].mint # t[to].mint
      THEN [err |-> "MintMismatch", tokens |-> t]
    ELSE IF t[from].owner # authority
      THEN [err |-> "OwnerMismatch", tokens |-> t]
    ELSE IF authority \notin signers
      THEN [err |-> "MissingRequiredSignature", tokens |-> t]
    ELSE IF from = to \/ amount = 0
      THEN [err |-> "Ok", tokens |-> t]
    ELSE [err |-> "Ok",
          tokens |-> [t EXCEPT ![from].amount = @ - amount,
                               ![to].amount = @ + amount]]

\* `transfer_checked`: as `transfer`, and the mint passed must be the
\* source's mint (the decimals passed are read from that same mint account).
TokTransferChecked(t, from, mint, to, authority, signers, amount) ==
    IF Exists(t, from) /\ t[from].mint # mint
      THEN [err |-> "MintMismatch", tokens |-> t]
      ELSE TokTransfer(t, from, to, authority, signers, amount)

\* `close_account`: only an empty account closes, on its owner's signature.
TokClose(t, account, authority, signers) ==
    IF ~Exists(t, account)
      THEN [err |-> "AccountNotInitialized", tokens |-> t]
    ELSE IF t[account].amount # 0
      THEN [err |-> "NonNativeHasBalance", tokens |-> t]
    ELSE IF t[account].owner # authority
      THEN [err |-> "OwnerMismatch", tokens |-> t]
    ELSE IF authority \notin signers
      THEN [err |-> "MissingRequiredSignature", tokens |-> t]
    ELSE [err |-> "Ok", tokens |-> Remove(t, account)]

\* The associated token program's create: a fresh, empty account of `mint`
\* owned by `auth` at the associated address.
TokCreate(t, auth, mint) ==
    Ata(auth, mint) :> [mint |-> mint, owner |-> auth, amount |-> 0] @@ t

\* --------------------------------------------------- Anchor constraints
\* An existing token account under `associated_token::mint/authority`.
CheckAta(t, a, mint, auth) ==
    IF ~Exists(t, a) THEN "AccountNotInitialized"
    ELSE IF t[a].owner # auth THEN "ConstraintTokenOwner"
    ELSE IF t[a].mint # mint \/ a # Ata(auth, mint) THEN "ConstraintAssociated"
    ELSE "Ok"

\* What an instruction returns: the error (or "Ok"), the account or step
\* that raised it, and the ledger to commit.  A failed instruction commits
\* the ledger it was given.
Fail(err, at, led) == [err |-> err, at |-> at, led |-> led]
Done(led) == [err |-> "Ok", at |-> "-", led |-> led]

\* ------------------------------------------------------------------ Make
\* The Escrow account as `init` leaves it before the handler runs.
ZeroEscrow == [seed |-> 0, mint_a |-> "-", mint_b |-> "-", receive |-> 0, bump |-> 0]

\* InitEscrow as `init_if_needed`: an address in use is taken over.
InitEscrow_IfNeeded(led, addr) ==
    Done(Ledger(led.tokens, addr :> ZeroEscrow @@ led.escrows))

\* `init` of the escrow PDA: the system program's create_account refuses an
\* address that is already in use.
InitEscrow(led, addr) ==
    IF addr \in DOMAIN led.escrows
      THEN Fail("AlreadyInUse", "escrow", led)
      ELSE Done(Ledger(led.tokens, addr :> ZeroEscrow @@ led.escrows))

\* `init` of the vault: the associated token program's create refuses an
\* existing account.
InitVault(led, escrow, mint_a) ==
    IF Exists(led.tokens, Ata(escrow, mint_a))
      THEN Fail("AlreadyInUse", "vault", led)
      ELSE Done(Ledger(TokCreate(led.tokens, escrow, mint_a), led.escrows))

\* #[derive(Accounts)] struct Make: the accounts are checked, and the
\* `init` ones created, in the order of their declaration.
\*   a.maker        the signer
\*   a.mint_a/b     the two mints
\*   a.maker_ata_a  the token account the caller passes as the maker's
\*   a.seed         the instruction's seed
\* The escrow and vault addresses are those Anchor derives.
MakeEscrowKey(a) == EscrowPda(a.maker, a.seed, CanonicalBump(a.maker, a.seed))

\* MakeAccounts without the constraint that maker_ata_a is the maker's.
MakeAccounts_SourceUnchecked(led, a) ==
    LET e == InitEscrow(led, MakeEscrowKey(a))
        v == InitVault(e.led, MakeEscrowKey(a), a.mint_a)
    IN  IF e.err # "Ok" THEN e
        ELSE v

MakeAccounts(led, a) ==
    LET ata == CheckAta(led.tokens, a.maker_ata_a, a.mint_a, Wallet(a.maker))
        e   == InitEscrow(led, MakeEscrowKey(a))
        v   == InitVault(e.led, MakeEscrowKey(a), a.mint_a)
    IN  IF ata # "Ok" THEN Fail(ata, "maker_ata_a", led)
        ELSE IF e.err # "Ok" THEN e
        ELSE v

\* Make_deposit with the two amounts mixed up: `receive` is deposited.
Make_deposit_Receive(led, a) ==
    LET r == TokTransfer(led.tokens, a.maker_ata_a,
                         Ata(MakeEscrowKey(a), a.mint_a),
                         Wallet(a.maker), {Wallet(a.maker)}, a.receive)
    IN  IF r.err # "Ok" THEN Fail(r.err, "deposit", led)
        ELSE Done(Ledger(r.tokens, led.escrows))

\* Make::deposit: `deposit` of mint_a from the maker's account to the vault,
\* on the maker's signature.
Make_deposit(led, a) ==
    LET r == TokTransfer(led.tokens, a.maker_ata_a,
                         Ata(MakeEscrowKey(a), a.mint_a),
                         Wallet(a.maker), {Wallet(a.maker)}, a.deposit)
    IN  IF r.err # "Ok" THEN Fail(r.err, "deposit", led)
        ELSE Done(Ledger(r.tokens, led.escrows))

\* Make_save_escrow with the two mints stored the wrong way round.
Make_save_escrow_Swapped(led, a) ==
    Done(Ledger(led.tokens,
                [led.escrows EXCEPT ![MakeEscrowKey(a)] =
                    [seed    |-> a.seed,
                     mint_a  |-> a.mint_b,
                     mint_b  |-> a.mint_a,
                     receive |-> a.receive,
                     bump    |-> CanonicalBump(a.maker, a.seed)]]))

\* Make::save_escrow: set_inner writes every field of the record.
Make_save_escrow(led, a) ==
    Done(Ledger(led.tokens,
                [led.escrows EXCEPT ![MakeEscrowKey(a)] =
                    [seed    |-> a.seed,
                     mint_a  |-> a.mint_a,
                     mint_b  |-> a.mint_b,
                     receive |-> a.receive,
                     bump    |-> CanonicalBump(a.maker, a.seed)]]))

\* make without the transaction's rollback: what was done before the step
\* that failed stays.
make_NoRollback(led, a) ==
    LET acc == MakeAccounts(led, a)
        dep == Make_deposit(acc.led, a)
        sav == Make_save_escrow(dep.led, a)
    IN  IF acc.err # "Ok" THEN Fail(acc.err, acc.at, acc.led)
        ELSE IF dep.err # "Ok" THEN Fail(dep.err, dep.at, acc.led)
        ELSE sav

\* lib.rs make: deposit, then save_escrow; any error aborts the transaction.
make(led, a) ==
    LET acc == MakeAccounts(led, a)
        dep == Make_deposit(acc.led, a)
        sav == Make_save_escrow(dep.led, a)
    IN  IF acc.err # "Ok" THEN Fail(acc.err, acc.at, led)
        ELSE IF dep.err # "Ok" THEN Fail(dep.err, dep.at, led)
        ELSE sav

\* ------------------------------------------------------------------ Take
\* `init_if_needed` of an associated token account: created when absent,
\* checked when present.
InitIfNeeded(led, auth, mint, at) ==
    IF ~Exists(led.tokens, Ata(auth, mint))
      THEN Done(Ledger(TokCreate(led.tokens, auth, mint), led.escrows))
    ELSE IF CheckAta(led.tokens, Ata(auth, mint), mint, auth) # "Ok"
      THEN Fail(CheckAta(led.tokens, Ata(auth, mint), mint, auth), at, led)
    ELSE Done(led)

\* TakeEscrow without `has_one = mint_b`.
TakeEscrow_NoMintB(led, a) ==
    IF a.escrow \notin DOMAIN led.escrows
      THEN Fail("AccountNotInitialized", "escrow", led)
    ELSE IF a.escrow_maker # a.maker
      THEN Fail("ConstraintHasOne", "escrow", led)
    ELSE IF led.escrows[a.escrow].mint_a # a.mint_a
      THEN Fail("ConstraintHasOne", "escrow", led)
    ELSE IF a.escrow # EscrowPda(a.maker, led.escrows[a.escrow].seed,
                                 led.escrows[a.escrow].bump)
      THEN Fail("ConstraintSeeds", "escrow", led)
    ELSE Done(led)

\* TakeEscrow without the seeds constraint that binds the maker passed to the
\* record's address.
TakeEscrow_NoSeeds(led, a) ==
    IF a.escrow \notin DOMAIN led.escrows
      THEN Fail("AccountNotInitialized", "escrow", led)
    ELSE IF a.escrow_maker # a.maker
      THEN Fail("ConstraintHasOne", "escrow", led)
    ELSE IF led.escrows[a.escrow].mint_a # a.mint_a
      THEN Fail("ConstraintHasOne", "escrow", led)
    ELSE IF led.escrows[a.escrow].mint_b # a.mint_b
      THEN Fail("ConstraintHasOne", "escrow", led)
    ELSE Done(led)

\* The constraints on Take.escrow.  state.rs declares no `maker` field, so
\* what `has_one = maker` compares with the maker's key is not determined by
\* the source: a.escrow_maker is the value that comparison reads.
TakeEscrow(led, a) ==
    IF a.escrow \notin DOMAIN led.escrows
      THEN Fail("AccountNotInitialized", "escrow", led)
    ELSE IF a.escrow_maker # a.maker
      THEN Fail("ConstraintHasOne", "escrow", led)
    ELSE IF led.escrows[a.escrow].mint_a # a.mint_a
      THEN Fail("ConstraintHasOne", "escrow", led)
    ELSE IF led.escrows[a.escrow].mint_b # a.mint_b
      THEN Fail("ConstraintHasOne", "escrow", led)
    ELSE IF a.escrow # EscrowPda(a.maker, led.escrows[a.escrow].seed,
                                 led.escrows[a.escrow].bump)
      THEN Fail("ConstraintSeeds", "escrow", led)
    ELSE Done(led)

\* #[derive(Accounts)] struct Take, in declaration order.
\*   a.taker        the signer
\*   a.maker        the system account passed as the maker
\*   a.mint_a/b     the two mints
\*   a.taker_ata_b  the token account the caller passes as the taker's
\*   a.escrow       the address passed as the escrow
\*   a.vault        the address passed as the vault
TakeAccounts(led, a) ==
    LET ta == InitIfNeeded(led, Wallet(a.taker), a.mint_a, "taker_ata_a")
        tb == CheckAta(ta.led.tokens, a.taker_ata_b, a.mint_b, Wallet(a.taker))
        mb == InitIfNeeded(ta.led, Wallet(a.maker), a.mint_b, "maker_ata_b")
        e  == TakeEscrow(mb.led, a)
        v  == CheckAta(mb.led.tokens, a.vault, a.mint_a, a.escrow)
    IN  IF ta.err # "Ok" THEN ta
        ELSE IF tb # "Ok" THEN Fail(tb, "taker_ata_b", led)
        ELSE IF mb.err # "Ok" THEN mb
        ELSE IF e.err # "Ok" THEN e
        ELSE IF v # "Ok" THEN Fail(v, "vault", led)
        ELSE Done(mb.led)

\* Who has signed inside a CPI made with signer_seeds
\* [b"escrow", maker, escrow.seed, [escrow.bump]]: the transaction's signer
\* and the PDA those seeds derive.
SignerSeeds(led, signer, maker, escrow) ==
    {Wallet(signer),
     EscrowPda(maker, led.escrows[escrow].seed, led.escrows[escrow].bump)}

\* Take_deposit that charges the amount held in the vault in place of the
\* record's `receive`.
Take_deposit_VaultAmount(led, a) ==
    LET r == TokTransferChecked(led.tokens, a.taker_ata_b, a.mint_b,
                                Ata(Wallet(a.maker), a.mint_b),
                                Wallet(a.taker), {Wallet(a.taker)},
                                Amount(led.tokens, a.vault))
    IN  IF r.err # "Ok" THEN Fail(r.err, "deposit", led)
        ELSE Done(Ledger(r.tokens, led.escrows))

\* Take_deposit with the counter-payment left out.
Take_deposit_Skipped(led, a) == Done(led)

\* Take::deposit: escrow.receive of mint_b from the taker to the maker, on
\* the taker's signature.
Take_deposit(led, a) ==
    LET r == TokTransferChecked(led.tokens, a.taker_ata_b, a.mint_b,
                                Ata(Wallet(a.maker), a.mint_b),
                                Wallet(a.taker), {Wallet(a.taker)},
                                led.escrows[a.escrow].receive)
    IN  IF r.err # "Ok" THEN Fail(r.err, "deposit", led)
        ELSE Done(Ledger(r.tokens, led.escrows))

\* Take_withdraw with the payout sent to the maker's mint_a account.
Take_withdraw_ToMaker(led, a, loaded) ==
    LET r == TokTransferChecked(led.tokens, a.vault, a.mint_a,
                                Ata(Wallet(a.maker), a.mint_a), a.escrow,
                                SignerSeeds(led, a.taker, a.maker, a.escrow),
                                Amount(loaded.tokens, a.vault))
    IN  IF r.err # "Ok" THEN Fail(r.err, "withdraw", led)
        ELSE Done(Ledger(r.tokens, led.escrows))

\* The first half of Take::withdraw_and_close_vault: vault.amount, as the
\* vault was deserialised when the accounts were checked (`loaded`), from the
\* vault to the taker, on the escrow PDA's signature.
Take_withdraw(led, a, loaded) ==
    LET r == TokTransferChecked(led.tokens, a.vault, a.mint_a,
                                Ata(Wallet(a.taker), a.mint_a), a.escrow,
                                SignerSeeds(led, a.taker, a.maker, a.escrow),
                                Amount(loaded.tokens, a.vault))
    IN  IF r.err # "Ok" THEN Fail(r.err, "withdraw", led)
        ELSE Done(Ledger(r.tokens, led.escrows))

\* Take_close_vault with the close left out.
Take_close_vault_Skipped(led, a) == Done(led)

\* The second half: close the vault on the escrow PDA's signature.
Take_close_vault(led, a) ==
    LET r == TokClose(led.tokens, a.vault, a.escrow,
                      SignerSeeds(led, a.taker, a.maker, a.escrow))
    IN  IF r.err # "Ok" THEN Fail(r.err, "close_vault", led)
        ELSE Done(Ledger(r.tokens, led.escrows))

\* CloseEscrow that wipes the record's data and leaves the account in place.
CloseEscrow_Zeroed(led, escrow) ==
    Done(Ledger(led.tokens, [led.escrows EXCEPT ![escrow] = ZeroEscrow]))

\* The escrow without its `close = maker`.
CloseEscrow_Kept(led, escrow) == Done(led)

\* `close = maker` on the escrow: when the handler has returned Ok the
\* record is closed.
CloseEscrow(led, escrow) == Done(Ledger(led.tokens, Remove(led.escrows, escrow)))

\* take with the withdrawal and the vault's close left out.
take_NoWithdraw(led, a) ==
    LET acc == TakeAccounts(led, a)
        dep == Take_deposit(acc.led, a)
    IN  IF acc.err # "Ok" THEN Fail(acc.err, acc.at, led)
        ELSE IF dep.err # "Ok" THEN Fail(dep.err, dep.at, led)
        ELSE CloseEscrow(dep.led, a.escrow)

\* TakeSteps with the payout made first and the counter-payment after it.
TakeSteps_PayoutFirst(led, a) ==
    LET acc == TakeAccounts(led, a)
        Wit(p) == IF p.err = "Ok" THEN Take_withdraw(p.led, a, acc.led) ELSE p
        Dep(p) == IF p.err = "Ok" THEN Take_deposit(p.led, a) ELSE p
        Clo(p) == IF p.err = "Ok" THEN Take_close_vault(p.led, a) ELSE p
        Fin(p) == IF p.err = "Ok" THEN CloseEscrow(p.led, a.escrow) ELSE p
    IN  <<acc, Wit(acc), Dep(Wit(acc)), Clo(Dep(Wit(acc))), Fin(Clo(Dep(Wit(acc))))>>

\* The steps of a Take in the order they run, each with the ledger it
\* leaves: the accounts' checks, then lib.rs take's deposit, withdraw and
\* close_vault, then the escrow's close on exit.  A step that fails ends the
\* run: the steps after it report the same failure.
\* (lib.rs names the last two handler steps withdraw() and close_vault();
\* take.rs holds them as the two halves of withdraw_and_close_vault.)
TakeSteps(led, a) ==
    LET acc == TakeAccounts(led, a)
        Dep(p) == IF p.err = "Ok" THEN Take_deposit(p.led, a) ELSE p
        Wit(p) == IF p.err = "Ok" THEN Take_withdraw(p.led, a, acc.led) ELSE p
        Clo(p) == IF p.err = "Ok" THEN Take_close_vault(p.led, a) ELSE p
        Fin(p) == IF p.err = "Ok" THEN CloseEscrow(p.led, a.escrow) ELSE p
    IN  <<acc, Dep(acc), Wit(Dep(acc)), Clo(Wit(Dep(acc))), Fin(Clo(Wit(Dep(acc))))>>

\* lib.rs take: the steps in their order; any error aborts the transaction.
take(led, a) ==
    LET fin == TakeSteps(led, a)[5]
    IN  IF fin.err # "Ok" THEN Fail(fin.err, fin.at, led) ELSE fin

\* RefundEscrow without the seeds constraint that binds the signer.
RefundEscrow_NoSeeds(led, a) ==
    IF a.escrow \notin DOMAIN led.escrows
      THEN Fail("AccountNotInitialized", "escrow", led)
    ELSE IF led.escrows[a.escrow].mint_a # a.mint_a
      THEN Fail("ConstraintHasOne", "escrow", led)
    ELSE Done(led)

\* ---------------------------------------------------------------- Refund
\* The constraints on Refund.escrow.
RefundEscrow(led, a) ==
    IF a.escrow \notin DOMAIN led.escrows
      THEN Fail("AccountNotInitialized", "escrow", led)
    ELSE IF led.escrows[a.escrow].mint_a # a.mint_a
      THEN Fail("ConstraintHasOne", "escrow", led)
    ELSE IF a.escrow # EscrowPda(a.maker, led.escrows[a.escrow].seed,
                                 led.escrows[a.escrow].bump)
      THEN Fail("ConstraintSeeds", "escrow", led)
    ELSE Done(led)

\* The constraints on Refund.vault: a token account at the program address
\* of [b"vault", escrow.key()].  state.rs declares no `vault_bump` field, so
\* the bump the check uses is not determined by the source: a.vault_bump is
\* the value it reads.
RefundVault(led, a) ==
    IF ~Exists(led.tokens, a.vault)
      THEN Fail("AccountNotInitialized", "vault", led)
    ELSE IF a.vault # VaultPda(a.escrow, a.vault_bump)
      THEN Fail("ConstraintSeeds", "vault", led)
    ELSE IF led.tokens[a.vault].mint # a.mint_a
      THEN Fail("ConstraintTokenMint", "vault", led)
    ELSE IF led.tokens[a.vault].owner # a.escrow
      THEN Fail("ConstraintTokenOwner", "vault", led)
    ELSE Done(led)

\* #[derive(Accounts)] struct Refund, in declaration order.
\*   a.maker   the signer
\*   a.mint_a  the mint
\*   a.escrow  the address passed as the escrow
\*   a.vault   the address passed as the vault
RefundAccounts(led, a) ==
    LET ma == CheckAta(led.tokens, Ata(Wallet(a.maker), a.mint_a), a.mint_a,
                       Wallet(a.maker))
        e  == RefundEscrow(led, a)
        v  == RefundVault(led, a)
    IN  IF ma # "Ok" THEN Fail(ma, "maker_ata_a", led)
        ELSE IF e.err # "Ok" THEN e
        ELSE v

\* Refund::refund: vault.amount from the vault to the maker, on the escrow
\* PDA's signature.
Refund_refund(led, a) ==
    LET r == TokTransfer(led.tokens, a.vault, Ata(Wallet(a.maker), a.mint_a),
                         a.escrow,
                         SignerSeeds(led, a.maker, a.maker, a.escrow),
                         Amount(led.tokens, a.vault))
    IN  IF r.err # "Ok" THEN Fail(r.err, "refund", led)
        ELSE Done(Ledger(r.tokens, led.escrows))

\* Refund::close_vault.
Refund_close_vault(led, a) ==
    LET r == TokClose(led.tokens, a.vault, a.escrow,
                      SignerSeeds(led, a.maker, a.maker, a.escrow))
    IN  IF r.err # "Ok" THEN Fail(r.err, "close_vault", led)
        ELSE Done(Ledger(r.tokens, led.escrows))

\* lib.rs refund: refund, close_vault, then the escrow's close.
refund(led, a) ==
    LET acc == RefundAccounts(led, a)
        ref == Refund_refund(acc.led, a)
        clo == Refund_close_vault(ref.led, a)
    IN  IF acc.err # "Ok" THEN Fail(acc.err, acc.at, led)
        ELSE IF ref.err # "Ok" THEN Fail(ref.err, ref.at, led)
        ELSE IF clo.err # "Ok" THEN Fail(clo.err, clo.at, led)
        ELSE CloseEscrow(clo.led, a.escrow)

\* --------------------------------------------------------- state machine
\* What a caller may pass to each instruction.  The token accounts the
\* instruction credits are at their associated addresses; the account it
\* debits may be any wallet's, and the escrow any escrow address.  A Take
\* passes as the vault the associated account of the escrow and mint_a it
\* passes: the vault's constraints refuse every other address.
\* A Make names two different mints and deposits at least 1.
MakeInputs ==
    {[maker |-> k, mint_a |-> mm[1], mint_b |-> mm[2],
      maker_ata_a |-> Ata(Wallet(o), mm[1]), seed |-> s,
      deposit |-> d, receive |-> r] :
        k \in Wallets, mm \in {p \in Mints \X Mints : p[1] # p[2]}, o \in Wallets,
        s \in Seeds, d \in 1..MaxAmount, r \in 0..MaxAmount}

TakeInputs ==
    {[taker |-> t, maker |-> k, mint_a |-> ma, mint_b |-> mb,
      taker_ata_b |-> Ata(Wallet(o), mb), escrow |-> e,
      vault |-> Ata(e, ma), escrow_maker |-> em] :
        t \in Wallets, k \in Wallets, ma \in Mints, mb \in Mints,
        o \in Wallets, e \in EscrowAddrs, em \in Wallets}

RefundInputs ==
    {[maker |-> k, mint_a |-> ma, escrow |-> e,
      vault |-> IF pda THEN VaultPda(e, b) ELSE Ata(e, ma),
      vault_bump |-> b] :
        k \in Wallets, ma \in Mints, e \in EscrowAddrs, pda \in BOOLEAN,
        b \in Bumps}

\* `last`: the instruction that made the latest step and what it returned.
Last(op, r) == [op |-> op, err |-> r.err, at |-> r.at]

Total(t, mint) ==
    LET RECURSIVE Sum(_)
        Sum(S) == IF S = {} THEN 0
                  ELSE LET x == CHOOSE y \in S : TRUE
                       IN  (IF t[x].mint = mint THEN t[x].amount ELSE 0) + Sum(S \ {x})
    IN  Sum(DOMAIN t)

\* Before the first instruction: w1 holds MaxAmount of X, w2 MaxAmount of
\* Y, neither has an account for the other mint, and no escrow exists.
Init ==
    /\ tokens = [x \in {Ata(Wallet("w1"), "X"), Ata(Wallet("w2"), "Y")} |->
                    [mint |-> x.mint, owner |-> x.auth, amount |-> MaxAmount]]
    /\ escrows = [x \in {} |-> ZeroEscrow]
    /\ last = Last("init", Done(0))
    /\ closed = NoEscrow
    /\ supply0 = [m \in Mints |-> Total(tokens, m)]
    /\ made = [x \in {} |-> 0]

Commit(r) ==
    /\ tokens' = r.led.tokens
    /\ escrows' = r.led.escrows

Make ==
    \E a \in MakeInputs :
      \E r \in {make(Ledger(tokens, escrows), a)} :
          /\ Commit(r)
          /\ last' = Last("make", r)
          /\ made' = IF r.err = "Ok" THEN MakeEscrowKey(a) :> a @@ made ELSE made
          /\ UNCHANGED <<closed, supply0>>

Take ==
    \E a \in TakeInputs :
      \E r \in {take(Ledger(tokens, escrows), a)} :
          /\ Commit(r)
          /\ last' = Last("take", r)
          /\ closed' = IF r.err = "Ok" THEN a.escrow ELSE closed
          /\ made' = IF r.err = "Ok" THEN Remove(made, a.escrow) ELSE made
          /\ UNCHANGED supply0

Refund ==
    \E a \in RefundInputs :
      \E r \in {refund(Ledger(tokens, escrows), a)} :
          /\ Commit(r)
          /\ last' = Last("refund", r)
          /\ closed' = IF r.err = "Ok" THEN a.escrow ELSE closed
          /\ made' = IF r.err = "Ok" THEN Remove(made, a.escrow) ELSE made
          /\ UNCHANGED supply0

Next == Make \/ Take \/ Refund

Spec == Init /\ [][Next]_vars

\* ================================================================ claims
Led == Ledger(tokens, escrows)

Live(e) == e \in DOMAIN escrows

\* The maker who created the record at e: the key its address derives from.
Creator(e) == e.key

\* The vault Make created for the record at e.
VaultOf(led, e) == Ata(e, led.escrows[e].mint_a)

\* How much the balance at x changes from ledger `pre` to ledger `post`
\* (an absent account holds nothing).
Delta(pre, post, x) == Amount(post.tokens, x) - Amount(pre.tokens, x)

Accounts(pre, post) == DOMAIN pre.tokens \cup DOMAIN post.tokens

Flow(x, to, amount) == IF x = to THEN amount ELSE 0

\* C1: whenever a Take succeeds, the record it names was live, exactly
\* `receive` of mint_b has gone from the taker's account to the account of
\* the maker who created the record, exactly the vault's whole balance of
\* mint_a has gone to the taker, no other balance has changed, and the record
\* and its vault are gone.
C1_TakeSettles ==
    \A a \in TakeInputs :
      LET r == take(Led, a)
          e == a.escrow
      IN  r.err = "Ok" =>
            /\ Live(e)
            /\ ~(e \in DOMAIN r.led.escrows)
            /\ ~Exists(r.led.tokens, VaultOf(Led, e))
            /\ \A x \in Accounts(Led, r.led) \ {VaultOf(Led, e)} :
                 Delta(Led, r.led, x) =
                     Flow(x, Ata(Wallet(Creator(e)), escrows[e].mint_b), escrows[e].receive)
                   - Flow(x, Ata(Wallet(a.taker), escrows[e].mint_b), escrows[e].receive)
                   + Flow(x, Ata(Wallet(a.taker), escrows[e].mint_a),
                          Amount(tokens, VaultOf(Led, e)))

\* A Take has just succeeded and the swap of the two wallets' holdings is
\* complete: w2 holds the X that w1 deposited, w1 the Y that w2 paid.
C1_Witness ==
    /\ last.op = "take" /\ last.err = "Ok"
    /\ Amount(tokens, Ata(Wallet("w2"), "X")) = MaxAmount
    /\ Amount(tokens, Ata(Wallet("w1"), "Y")) = MaxAmount
    /\ escrows = [x \in {} |-> ZeroEscrow]

\* C2 (as stated): a Refund by the record's maker, given the record's mint
\* and the vault Make created, moves the vault's whole balance back to the
\* maker's mint_a account and leaves neither the record nor the vault.
C2_RefundReturnsDeposit ==
    \A a \in RefundInputs :
      LET r == refund(Led, a)
          e == a.escrow
      IN  (/\ Live(e)
           /\ a.maker = Creator(e)
           /\ a.mint_a = escrows[e].mint_a
           /\ a.vault = VaultOf(Led, e))
          => /\ ~(e \in DOMAIN r.led.escrows)
             /\ ~Exists(r.led.tokens, VaultOf(Led, e))
             /\ Delta(Led, r.led, Ata(Wallet(a.maker), a.mint_a))
                  = Amount(tokens, VaultOf(Led, e))

\* C3 (as stated): once a Take or Refund has succeeded for the record of
\* (maker, seed), no later Take or Refund naming that record succeeds.
C3_NeverSettledTwice ==
    /\ \A a \in TakeInputs : a.escrow = closed => take(Led, a).err # "Ok"
    /\ \A a \in RefundInputs : a.escrow = closed => refund(Led, a).err # "Ok"

\* C3 (amended): a Take or Refund succeeds only on a live record and leaves
\* it closed, and a Take or Refund naming a record that is not live (closed
\* and not created again by a later Make, or never created) fails and
\* changes nothing; so of the Takes and Refunds on one created record at
\* most one succeeds, in whichever order they are run.
C3_SettledOncePerRecord ==
    /\ \A a \in TakeInputs :
         LET r == take(Led, a)
         IN  /\ r.err = "Ok" => Live(a.escrow) /\ ~(a.escrow \in DOMAIN r.led.escrows)
             /\ ~Live(a.escrow) => r.err # "Ok" /\ r.led = Led
    /\ \A a \in RefundInputs :
         LET r == refund(Led, a)
         IN  /\ r.err = "Ok" => Live(a.escrow) /\ ~(a.escrow \in DOMAIN r.led.escrows)
             /\ ~Live(a.escrow) => r.err # "Ok" /\ r.led = Led
    /\ last.op \in {"take", "refund"} /\ last.err = "Ok" => ~Live(closed)

\* A record has been settled, is not live, and a Take or Refund has just
\* been refused at its escrow account.
C3_Witness ==
    /\ closed # NoEscrow /\ ~Live(closed)
    /\ last.op \in {"take", "refund"}
    /\ last.err = "AccountNotInitialized" /\ last.at = "escrow"

\* C4: for each mint the balances of all token accounts, wallets' and
\* vaults', add up to what there was at the start, and every token account
\* of an escrow PDA that holds funds is the vault of a live record.
C4_Conservation ==
    /\ \A m \in Mints : Total(tokens, m) = supply0[m]
    /\ \A x \in DOMAIN tokens :
         tokens[x].owner.kind = "escrow" /\ tokens[x].amount > 0
           => Live(tokens[x].owner) /\ x = VaultOf(Led, tokens[x].owner)

\* After a settlement, another record is live with a funded vault.
C4_Witness ==
    /\ closed # NoEscrow
    /\ \E e \in DOMAIN escrows : Amount(tokens, VaultOf(Led, e)) > 0
    /\ \E w \in Wallets, m \in Mints : Amount(tokens, Ata(Wallet(w), m)) > 0

\* C5: a record is live exactly when its vault exists: every live record
\* has its vault, and every token account of an escrow PDA is the vault of a
\* live record.
C5_RecordIffVault ==
    /\ \A e \in DOMAIN escrows : Exists(tokens, VaultOf(Led, e))
    /\ \A x \in DOMAIN tokens :
         tokens[x].owner.kind = "escrow"
           => Live(tokens[x].owner) /\ x = VaultOf(Led, tokens[x].owner)

\* One record is live with its vault while another has been closed, its
\* vault gone with it.
C5_Witness ==
    /\ closed # NoEscrow /\ ~Live(closed)
    /\ \A m \in Mints : ~Exists(tokens, Ata(closed, m))
    /\ \E e \in DOMAIN escrows : Exists(tokens, VaultOf(Led, e))

\* A Make the program is meant to accept: signed by a maker who passes their
\* own mint_a account holding at least the deposit, with no record yet at
\* the address of (maker, seed).
ValidMake(a) ==
    /\ a.maker_ata_a = Ata(Wallet(a.maker), a.mint_a)
    /\ Exists(tokens, a.maker_ata_a)
    /\ tokens[a.maker_ata_a].amount >= a.deposit
    /\ ~Live(MakeEscrowKey(a))

\* C6: every valid Make(seed, d, r) succeeds, and a Make that succeeds
\* leaves a vault holding exactly d, the maker's mint_a balance lower by
\* exactly d, and a record with fields (seed, mint_a, mint_b, r) as passed.
C6_MakePostState ==
    \A a \in MakeInputs :
      LET r == make(Led, a)
          e == MakeEscrowKey(a)
      IN  /\ ValidMake(a) => r.err = "Ok"
          /\ r.err = "Ok" =>
               /\ e \in DOMAIN r.led.escrows
               /\ r.led.escrows[e].seed = a.seed
               /\ r.led.escrows[e].mint_a = a.mint_a
               /\ r.led.escrows[e].mint_b = a.mint_b
               /\ r.led.escrows[e].receive = a.receive
               /\ Exists(r.led.tokens, Ata(e, a.mint_a))
               /\ r.led.tokens[Ata(e, a.mint_a)].amount = a.deposit
               /\ r.led.tokens[Ata(e, a.mint_a)].mint = a.mint_a
               /\ Delta(Led, r.led, Ata(Wallet(a.maker), a.mint_a)) = 0 - a.deposit

\* A Make has just succeeded: a funded vault and its record, which asks for
\* MaxAmount of the other mint, now exist.
C6_Witness ==
    /\ last.op = "make" /\ last.err = "Ok"
    /\ \E e \in DOMAIN escrows :
         /\ Amount(tokens, VaultOf(Led, e)) = MaxAmount
         /\ escrows[e].receive = MaxAmount
         /\ escrows[e].mint_a # escrows[e].mint_b

\* C7: a Refund of a live record signed by anyone but the maker who created
\* it fails and changes nothing; it is refused while the accounts are
\* checked, no later than at the escrow's seeds, before the vault is looked
\* at.
C7_RefundOnlyByMaker ==
    \A a \in RefundInputs :
      LET r == refund(Led, a)
      IN  Live(a.escrow) /\ a.maker # Creator(a.escrow)
            => /\ r.err # "Ok"
               /\ r.led = Led
               /\ r.at \in {"maker_ata_a", "escrow"}

\* A Refund of a live record has just been refused at the escrow's seeds.
C7_Witness ==
    /\ last.op = "refund" /\ last.err = "ConstraintSeeds" /\ last.at = "escrow"
    /\ \E e \in DOMAIN escrows, w \in Wallets :
         w # Creator(e) /\ Exists(tokens, Ata(Wallet(w), escrows[e].mint_a))

\* C8: a Take of a live record by a taker whose mint_b balance is below the
\* record's `receive` fails and changes nothing: no balance, token account,
\* vault or record differs.
C8_TakeNeedsFunds ==
    \A a \in TakeInputs :
      LET r == take(Led, a)
          e == a.escrow
      IN  Live(e) /\ Amount(tokens, Ata(Wallet(a.taker), escrows[e].mint_b))
                       < escrows[e].receive
            => r.err # "Ok" /\ r.led = Led

\* A Take has just been refused by the token program for lack of funds.
C8_Witness ==
    /\ last.op = "take" /\ last.err = "InsufficientFunds" /\ last.at = "deposit"
    /\ \E e \in DOMAIN escrows, w \in Wallets :
         /\ Exists(tokens, Ata(Wallet(w), escrows[e].mint_b))
         /\ Amount(tokens, Ata(Wallet(w), escrows[e].mint_b)) < escrows[e].receive

\* C9: a Make for a (maker, seed) whose record is live fails and changes
\* nothing, and no two live records have the same maker and seed.
C9_NoDuplicateSeed ==
    /\ \A a \in MakeInputs :
         LET r == make(Led, a)
         IN  Live(MakeEscrowKey(a)) => r.err # "Ok" /\ r.led = Led
    /\ \A e1 \in DOMAIN escrows, e2 \in DOMAIN escrows :
         e1.key = e2.key /\ escrows[e1].seed = escrows[e2].seed => e1 = e2
    /\ \A e \in DOMAIN escrows : escrows[e].seed = e.seed

\* A Make has just been refused because the escrow address is in use.
C9_Witness ==
    /\ last.op = "make" /\ last.err = "AlreadyInUse" /\ last.at = "escrow"
    /\ escrows # [x \in {} |-> ZeroEscrow]

\* C10 (as stated): whenever a record is live, its maker can refund it: some
\* Refund signed by the maker succeeds and returns the whole deposit.
C10_MakerCanRefund ==
    \A e \in DOMAIN escrows :
      \E a \in RefundInputs :
        /\ a.escrow = e /\ a.maker = Creator(e)
        /\ refund(Led, a).err = "Ok"
        /\ Delta(Led, refund(Led, a).led, Ata(Wallet(a.maker), escrows[e].mint_a))
             = Amount(tokens, VaultOf(Led, e))

\* The accounts of a Take that are checked no later than the escrow.
TakeChecksToEscrow == {"taker_ata_a", "taker_ata_b", "maker_ata_b", "escrow"}

\* C11: a Take succeeds only when the maker passed is the maker who created
\* the record; the only mint_b account a successful Take credits is the
\* associated mint_b account of that maker, by `receive` (by nothing when
\* the maker takes their own escrow); and a Take of a live record that
\* passes another maker is refused while the accounts are checked, no later
\* than at the escrow, and changes nothing.
C11_TakePaysCreator ==
    \A a \in TakeInputs :
      LET r == take(Led, a)
          e == a.escrow
      IN  /\ r.err = "Ok" =>
                /\ Live(e)
                /\ a.maker = Creator(e)
                /\ \A x \in DOMAIN r.led.tokens :
                      Delta(Led, r.led, x) > 0 /\ r.led.tokens[x].mint = escrows[e].mint_b
                        => x = Ata(Wallet(Creator(e)), escrows[e].mint_b)
                /\ Delta(Led, r.led, Ata(Wallet(Creator(e)), escrows[e].mint_b))
                     = IF a.taker = Creator(e) THEN 0 ELSE escrows[e].receive
          /\ Live(e) /\ a.maker # Creator(e) =>
                /\ r.err # "Ok"
                /\ r.led = Led
                /\ r.at \in TakeChecksToEscrow

\* A Take has just settled a record that w2 created: w2 holds the
\* counter-payment in the mint w2 did not start with, and the taker's
\* account of that mint is empty.
C11_Witness ==
    /\ last.op = "take" /\ last.err = "Ok"
    /\ closed.key = "w2"
    /\ Amount(tokens, Ata(Wallet("w2"), "X")) = MaxAmount
    /\ Amount(tokens, Ata(Wallet("w1"), "X")) = 0

\* C12: a Make that fails leaves the state as it was, whichever step failed:
\* no record, no vault and no transfer stays.  In particular a Make by a
\* maker whose own mint_a account holds less than the deposit, for a
\* (maker, seed) that has no record, fails at the deposit for lack of funds,
\* and the record and the vault that `init` had created are gone again.
C12_MakeRollsBack ==
    \A a \in MakeInputs :
      LET r == make(Led, a)
          e == MakeEscrowKey(a)
      IN  /\ r.err # "Ok" => r.led = Led
          /\ (/\ a.maker_ata_a = Ata(Wallet(a.maker), a.mint_a)
              /\ Exists(tokens, a.maker_ata_a)
              /\ ~Live(e)
              /\ a.deposit > tokens[a.maker_ata_a].amount)
             => /\ r.err = "InsufficientFunds" /\ r.at = "deposit"
                /\ ~(e \in DOMAIN r.led.escrows)
                /\ ~Exists(r.led.tokens, Ata(e, a.mint_a))
                /\ r.led.tokens = tokens

\* A Make has just failed at its deposit for lack of funds, and every live
\* record still has a funded vault: none is left from the failed Make.
C12_Witness ==
    /\ last.op = "make" /\ last.err = "InsufficientFunds" /\ last.at = "deposit"
    /\ \A e \in DOMAIN escrows : Amount(tokens, VaultOf(Led, e)) > 0

\* The vault of the live record e is in `post` as it is now.
VaultKept(post, e) ==
    /\ Exists(post.tokens, VaultOf(Led, e))
    /\ post.tokens[VaultOf(Led, e)] = tokens[VaultOf(Led, e)]

\* C13: the vault of every live record holds exactly the deposit of the Make
\* that created the record; an instruction leaves the vault of a live record
\* as it is unless it is a successful Take or Refund of that record; and a
\* successful Take pays the taker, a successful Refund the maker, exactly
\* that deposit.
C13_VaultHoldsDeposit ==
    /\ DOMAIN made = DOMAIN escrows
    /\ \A e \in DOMAIN escrows :
         /\ Exists(tokens, VaultOf(Led, e))
         /\ tokens[VaultOf(Led, e)].amount = made[e].deposit
    /\ \A a \in MakeInputs, e \in DOMAIN escrows : VaultKept(make(Led, a).led, e)
    /\ \A a \in TakeInputs :
         LET r == take(Led, a)
         IN  /\ \A e \in DOMAIN escrows :
                   (r.err = "Ok" /\ a.escrow = e) \/ VaultKept(r.led, e)
             /\ r.err = "Ok" =>
                   Delta(Led, r.led, Ata(Wallet(a.taker), made[a.escrow].mint_a))
                     = made[a.escrow].deposit
    /\ \A a \in RefundInputs :
         LET r == refund(Led, a)
         IN  /\ \A e \in DOMAIN escrows :
                   (r.err = "Ok" /\ a.escrow = e) \/ VaultKept(r.led, e)
             /\ r.err = "Ok" =>
                   Delta(Led, r.led, Ata(Wallet(a.maker), made[a.escrow].mint_a))
                     = made[a.escrow].deposit

\* Two records are live, each with its deposit in its vault, after a Take
\* of another record succeeded and a later Take or Refund was refused.
C13_Witness ==
    /\ closed # NoEscrow
    /\ last.op \in {"take", "refund"} /\ last.err # "Ok"
    /\ Cardinality(DOMAIN escrows) >= 2
    /\ \A e \in DOMAIN escrows :
         made[e].deposit > 0 /\ Amount(tokens, VaultOf(Led, e)) = made[e].deposit

\* C14: in every Take that succeeds the steps run in the order
\* counter-payment, payout, vault close, record close.  After the first
\* step the maker has been paid `receive` by the taker while the vault is
\* still full and the taker's mint_a account as it was; the second moves
\* the vault's whole balance to the taker and nothing of mint_b; the third
\* closes the emptied vault; and the record is live after each of these and
\* gone only after the last.
C14_TakeStepOrder ==
    \A a \in TakeInputs :
      LET s == TakeSteps(Led, a)
          e == a.escrow
          v == a.vault
          makerB == Ata(Wallet(a.maker), a.mint_b)
          takerA == Ata(Wallet(a.taker), a.mint_a)
          paid == IF a.taker = a.maker THEN 0 ELSE escrows[e].receive
      IN  take(Led, a).err = "Ok" =>
            /\ \A i \in 1..5 : s[i].err = "Ok"
            /\ \A i \in 1..4 : e \in DOMAIN s[i].led.escrows
                                /\ s[i].led.escrows[e] = escrows[e]
            \* after the counter-payment
            /\ Delta(s[1].led, s[2].led, makerB) = paid
            /\ Delta(s[1].led, s[2].led, a.taker_ata_b) = 0 - paid
            /\ Delta(s[1].led, s[2].led, takerA) = 0
            /\ Exists(s[2].led.tokens, v) /\ s[2].led.tokens[v] = tokens[v]
            \* after the payout
            /\ Delta(s[2].led, s[3].led, takerA) = tokens[v].amount
            /\ Delta(s[2].led, s[3].led, makerB) = 0
            /\ Delta(s[2].led, s[3].led, a.taker_ata_b) = 0
            /\ Exists(s[3].led.tokens, v) /\ s[3].led.tokens[v].amount = 0
            \* after the vault's close
            /\ s[4].led.tokens = Remove(s[3].led.tokens, v)
            \* after the record's close
            /\ s[5].led.tokens = s[4].led.tokens
            /\ ~(e \in DOMAIN s[5].led.escrows)

\* A Take of a record that w1 created has just run all its steps: w1 has
\* been paid MaxAmount, the taker holds the deposit, and neither the record
\* nor a token account of its address is left.
C14_Witness ==
    /\ last.op = "take" /\ last.err = "Ok"
    /\ closed.key = "w1" /\ ~Live(closed)
    /\ \A m \in Mints : ~Exists(tokens, Ata(closed, m))
    /\ Amount(tokens, Ata(Wallet("w1"), "Y")) = MaxAmount
    /\ Amount(tokens, Ata(Wallet("w2"), "X")) = MaxAmount

\* C15: a Take of a live record that passes a mint_a or a mint_b other than
\* the record's, and a Refund of a live record that passes a mint_a other
\* than the record's, fail and change nothing: they are refused while the
\* accounts are checked, no later than at the escrow's has_one.
C15_MintMismatchFails ==
    /\ \A a \in TakeInputs :
         LET r == take(Led, a)
             e == a.escrow
         IN  Live(e) /\ (a.mint_a # escrows[e].mint_a \/ a.mint_b # escrows[e].mint_b)
               => /\ r.err # "Ok"
                  /\ r.led = Led
                  /\ r.at \in TakeChecksToEscrow
    /\ \A a \in RefundInputs :
         LET r == refund(Led, a)
             e == a.escrow
         IN  Live(e) /\ a.mint_a # escrows[e].mint_a
               => /\ r.err # "Ok"
                  /\ r.led = Led
                  /\ r.at \in {"maker_ata_a", "escrow"}

\* A Refund of a live record has just been refused at the escrow's has_one,
\* which in a Refund compares nothing but mint_a.
C15_Witness ==
    /\ last.op = "refund" /\ last.err = "ConstraintHasOne" /\ last.at = "escrow"
    /\ \E e \in DOMAIN escrows, w \in Wallets :
         \E m \in Mints \ {escrows[e].mint_a} : Exists(tokens, Ata(Wallet(w), m))

\* C16 (as stated): once the record of (maker, seed) has been destroyed by a
\* Take or a Refund, no later step makes it live again.
C16_NeverActiveAgain ==
    [][closed # NoEscrow /\ ~Live(closed) => ~(closed \in DOMAIN escrows')]_vars

\* C16 (amended): a successful Take or Refund destroys the record it names,
\* and nothing else destroys a record; a record comes to exist at an address,
\* whether or not one was destroyed there before, only by a successful Make
\* signed by the maker and passing the seed of that address: no Take, no
\* Refund and no failed Make makes a destroyed record live again.
C16_OnlyMakeCreates ==
    [][/\ last'.op \in {"take", "refund"} /\ last'.err = "Ok"
          => Live(closed') /\ ~(closed' \in DOMAIN escrows')
       /\ \A e \in EscrowAddrs :
            /\ Live(e) /\ ~(e \in DOMAIN escrows')
                 => last'.op \in {"take", "refund"} /\ last'.err = "Ok" /\ closed' = e
            /\ ~Live(e) /\ e \in DOMAIN escrows'
                 => /\ last'.op = "make" /\ last'.err = "Ok"
                    /\ made'[e].maker = e.key /\ made'[e].seed = e.seed
                    /\ escrows'[e].seed = e.seed]_vars

\* The record destroyed most recently is live again: its maker has just made
\* a new escrow with the same seed.
C16_Witness ==
    /\ closed # NoEscrow /\ Live(closed)
    /\ last.op = "make" /\ last.err = "Ok"
    /\ made[closed].maker = closed.key /\ made[closed].seed = closed.seed

\* C17 (as stated): the Refund of a live record by its maker, given the
\* record's mint and vault, succeeds and changes only the maker's mint_a
\* balance, the vault and the record: the vault and the record are gone, no
\* other token account is created, closed or changed, so no counter-payment
\* is made, every mint_b balance and every balance of another principal is
\* as before, and no other record is touched.
C17_RefundFrame ==
    \A a \in RefundInputs :
      LET r == refund(Led, a)
          e == a.escrow
      IN  (/\ Live(e)
           /\ a.maker = Creator(e)
           /\ a.mint_a = escrows[e].mint_a
           /\ a.vault = VaultOf(Led, e))
          => /\ r.err = "Ok"
             /\ r.led.escrows = Remove(escrows, e)
             /\ DOMAIN r.led.tokens = DOMAIN tokens \ {VaultOf(Led, e)}
             /\ \A x \in DOMAIN r.led.tokens :
                   x # Ata(Wallet(a.maker), a.mint_a) => r.led.tokens[x] = tokens[x]
             /\ \A x \in DOMAIN r.led.tokens :
                   tokens[x].mint = escrows[e].mint_b => r.led.tokens[x] = tokens[x]

\* The live record e and its vault are in `post` as they are now.
RecordKept(post, e) ==
    /\ e \in DOMAIN post.escrows
    /\ post.escrows[e] = escrows[e]
    /\ VaultKept(post, e)

\* C18: records of different (maker, seed) are independent.  A Make for
\* (maker, s1), successful or not, leaves every live record whose maker and
\* seed are not (maker, s1), and its vault, as they are, and it is not
\* refused as a duplicate because a record of another seed is live; a Take
\* or a Refund, successful or not, leaves every live record other than the
\* one it names, and its vault, as they are.
C18_SeedsIndependent ==
    /\ \A a \in MakeInputs :
         LET r == make(Led, a)
         IN  /\ \A e \in DOMAIN escrows :
                   e.key # a.maker \/ escrows[e].seed # a.seed => RecordKept(r.led, e)
             /\ r.err = "AlreadyInUse" =>
                   \E e \in DOMAIN escrows : e.key = a.maker /\ escrows[e].seed = a.seed
    /\ \A a \in TakeInputs :
         \A e \in DOMAIN escrows \ {a.escrow} : RecordKept(take(Led, a).led, e)
    /\ \A a \in RefundInputs :
         \A e \in DOMAIN escrows \ {a.escrow} : RecordKept(refund(Led, a).led, e)

\* A Take has just settled one of two records of the same maker; the other,
\* of the other seed, is live with its deposit in its vault.
C18_Witness ==
    /\ last.op = "take" /\ last.err = "Ok"
    /\ ~Live(closed)
    /\ \E e \in DOMAIN escrows :
         /\ e.key = closed.key /\ e.seed # closed.seed
         /\ Amount(tokens, VaultOf(Led, e)) = made[e].deposit
         /\ made[e].deposit > 0

\* A record that is live now and still live in `post` has its fields as now.
FieldsKept(post, e) == e \in DOMAIN post.escrows => post.escrows[e] = escrows[e]

\* C19: every live record has the fields the Make that created it was given
\* (seed, mint_a, mint_b, receive) and the bump of its address; no
\* instruction changes a field of a record it leaves live; and a successful
\* Take takes from the taker's mint_b account exactly the `receive` passed to
\* that Make (which a maker taking their own escrow pays to that same
\* account).
C19_RecordImmutable ==
    /\ DOMAIN made = DOMAIN escrows
    /\ \A e \in DOMAIN escrows :
         escrows[e] = [seed    |-> made[e].seed,
                       mint_a  |-> made[e].mint_a,
                       mint_b  |-> made[e].mint_b,
                       receive |-> made[e].receive,
                       bump    |-> e.bump]
    /\ \A e \in DOMAIN escrows :
         /\ \A a \in MakeInputs : FieldsKept(make(Led, a).led, e)
         /\ \A a \in TakeInputs : FieldsKept(take(Led, a).led, e)
         /\ \A a \in RefundInputs : FieldsKept(refund(Led, a).led, e)
    /\ \A a \in TakeInputs :
         LET r == take(Led, a)
             e == a.escrow
         IN  r.err = "Ok" =>
               /\ a.taker_ata_b = Ata(Wallet(a.taker), made[e].mint_b)
               /\ Delta(Led, r.led, a.taker_ata_b)
                    = IF a.taker = made[e].maker THEN 0 ELSE 0 - made[e].receive

\* Since its Make a record that asks for MaxAmount has seen a Take or a
\* Refund refused, and a taker other than its maker can now take it.
C19_Witness ==
    /\ last.op \in {"take", "refund"} /\ last.err # "Ok"
    /\ \E a \in TakeInputs :
         /\ Live(a.escrow)
         /\ made[a.escrow].receive = MaxAmount
         /\ a.taker # made[a.escrow].maker
         /\ take(Led, a).err = "Ok"

\* The wallets' token accounts that hold less in `post` than now.
Debited(post) ==
    {x \in DOMAIN tokens :
       tokens[x].owner.kind = "wallet" /\ Amount(post.tokens, x) < tokens[x].amount}

\* C20: no instruction lowers a balance of a wallet that did not sign it.
\* A Make lowers at most the signing maker's mint_a account, and one that
\* names another wallet's account as its source is refused at that account,
\* before anything is created or moved; a Take lowers at most the signing
\* taker's mint_b account, never an account of the maker, and one that names
\* another wallet's account as its source is refused at the accounts; a
\* Refund lowers no wallet's balance.
C20_OnlySignerDebited ==
    /\ \A a \in MakeInputs :
         LET r == make(Led, a)
         IN  /\ Debited(r.led) \subseteq {Ata(Wallet(a.maker), a.mint_a)}
             /\ a.maker_ata_a.auth # Wallet(a.maker)
                  => r.err # "Ok" /\ r.at = "maker_ata_a" /\ r.led = Led
    /\ \A a \in TakeInputs :
         LET r == take(Led, a)
         IN  /\ Debited(r.led) \subseteq {Ata(Wallet(a.taker), a.mint_b)}
             /\ \A x \in Debited(r.led) : tokens[x].owner # Wallet(a.maker)
             /\ a.taker_ata_b.auth # Wallet(a.taker)
                  => r.err # "Ok" /\ r.at \in {"taker_ata_a", "taker_ata_b"} /\ r.led = Led
    /\ \A a \in RefundInputs : Debited(refund(Led, a).led) = {}

\* A Make that named a funded account of another wallet as its source has
\* just been refused at that account.
C20_Witness ==
    /\ last.op = "make" /\ last.err = "ConstraintTokenOwner" /\ last.at = "maker_ata_a"
    /\ \A w \in Wallets : \E m \in Mints : Amount(tokens, Ata(Wallet(w), m)) = MaxAmount

====
